---- MODULE Spec2Model ----
(***************************************************************************)
(* nostr-hll: the HyperLogLog estimator of hyperloglog.js (256 one-byte    *)
(* registers behind a Uint8Array reference, an offset into the 32-byte     *)
(* key) and the NIP-45 offset helpers of nip45.js.                         *)
(*                                                                         *)
(* JavaScript values are modelled as follows.                              *)
(*   - a string is a sequence of one-character strings, so that it can be  *)
(*     indexed and measured: 'ab' is <<"a", "b">>; JS index i is TLA+      *)
(*     index i + 1;                                                        *)
(*   - a value that may be undefined is a sequence of length at most one:  *)
(*     <<>> is undefined, <<v>> is the value v;                            *)
(*   - a Uint8Array is a function from 0 .. length-1 to 0 .. 255, and the  *)
(*     heap maps each array's identity to its contents, so that two        *)
(*     references to one array are one heap cell.                          *)
(***************************************************************************)
EXTENDS Integers, Sequences, FiniteSets, TLC

VARIABLES
    heap,       \* the Uint8Arrays alive: identity |-> contents
    hlls,       \* the HyperLogLog objects: identity |-> [offset, registers]
    err,        \* how the last call on the estimator ended: "ok", or the
                \* error it threw ("none": no call yet)
    filter,     \* the Filter handed to getFilterPubkeyOffset
    fres,       \* what getFilterPubkeyOffset returned (<<>>: not called yet)
    evt,        \* the Event handed to getEventPubkeyOffsetsAndReferences
    eres        \* what the generator yielded, in order (<<>> wrapped: see Init)

vars == <<heap, hlls, err, filter, fres, evt, eres>>

hllVars == <<heap, hlls, err>>

nipVars == <<filter, fres, evt, eres>>

(***************************************************************************)
(* JavaScript values                                                       *)
(***************************************************************************)
Undefined == <<>>

Some(v) == <<v>>

Present(o) == o # Undefined

\* Number.NaN, a number no arithmetic of the program reaches
NaN == -99

HexChars ==
    {"0", "1", "2", "3", "4", "5", "6", "7", "8", "9",
     "a", "b", "c", "d", "e", "f", "A", "B", "C", "D", "E", "F"}

\* parseInt(c, 16) of a one-character string
parseInt16(c) ==
    CASE c = "0" -> 0 [] c = "1" -> 1 [] c = "2" -> 2 [] c = "3" -> 3
      [] c = "4" -> 4 [] c = "5" -> 5 [] c = "6" -> 6 [] c = "7" -> 7
      [] c = "8" -> 8 [] c = "9" -> 9
      [] c \in {"a", "A"} -> 10 [] c \in {"b", "B"} -> 11
      [] c \in {"c", "C"} -> 12 [] c \in {"d", "D"} -> 13
      [] c \in {"e", "E"} -> 14 [] c \in {"f", "F"} -> 15
      [] OTHER -> NaN

\* a + b of two numbers
NumAdd(a, b) == IF a = NaN \/ b = NaN THEN NaN ELSE a + b

\* s[i] of a string or an array, JS index i: undefined past the end
At(s, i) == IF i >= 0 /\ i < Len(s) THEN Some(s[i + 1]) ELSE Undefined

\* 'c'.repeat(n)
Repeat(c, n) == [i \in 1 .. n |-> c]

\* /^[0-9a-fA-F]+$/.test(str)
TestHexRegex(str) == Len(str) >= 1 /\ \A i \in 1 .. Len(str) : str[i] \in HexChars

\* isValid32ByteHex: the argument may be undefined
isValid32ByteHex(str) ==
    /\ Present(str)
    /\ Len(str[1]) = 64
    /\ TestHexRegex(str[1])

(***************************************************************************)
(* nip45.js: getEventPubkeyOffsetsAndReferences                            *)
(***************************************************************************)
\* the yield with the nibble itself as offset, the "+ 8" left out
YieldedNoShift(v) ==
    [reference |-> v, offset |-> parseInt16(At(v, 32)[1])]

\* the object one yield produces from a validated hex string v
Yielded(v) ==
    [reference |-> v, offset |-> NumAdd(parseInt16(At(v, 32)[1]), 8)]

\* kind 3: the for-of loop over evt.tags, from tag index i (JS) onwards
RECURSIVE FollowLoop(_, _)
FollowLoop(tags, i) ==
    IF i >= Len(tags) THEN <<>>
    ELSE LET tag == tags[i + 1] IN
         IF Len(tag) >= 2 /\ At(tag, 0) = Some(<<"p">>) /\ isValid32ByteHex(At(tag, 1))
         THEN <<Yielded(tag[2])>> \o FollowLoop(tags, i + 1)
         ELSE FollowLoop(tags, i + 1)

\* the kind 7 loop without its break: it runs on to the first "e" tag
RECURSIVE LastELoopNoBreak(_, _)
LastELoopNoBreak(tags, i) ==
    IF i < 0 THEN -1
    ELSE LET below == LastELoopNoBreak(tags, i - 1) IN
         IF below >= 0 THEN below
         ELSE IF At(tags[i + 1], 0) = Some(<<"e">>) THEN i ELSE -1

\* kind 7: the loop from the last tag downwards; the index where it breaks,
\* or -1 when it runs out (lastE stays null)
RECURSIVE LastELoop(_, _)
LastELoop(tags, i) ==
    IF i < 0 THEN -1
    ELSE IF At(tags[i + 1], 0) = Some(<<"e">>) THEN i
    ELSE LastELoop(tags, i - 1)

\* kind 1111: evt.tags.find(t => t[0] === 'E'); the index found, or -1
RECURSIVE FindE(_, _)
FindE(tags, i) ==
    IF i >= Len(tags) THEN -1
    ELSE IF At(tags[i + 1], 0) = Some(<<"E">>) THEN i
    ELSE FindE(tags, i + 1)

\* what the kind 7 and kind 1111 branches yield from the tag they selected
YieldFromTag(tags, idx) ==
    IF idx < 0 THEN <<>>
    ELSE LET v == At(tags[idx + 1], 1) IN
         IF isValid32ByteHex(v) THEN <<Yielded(v[1])>> ELSE <<>>

\* everything the generator yields for evt, in order
getEventPubkeyOffsetsAndReferences(e) ==
    IF e.kind = 3 THEN FollowLoop(e.tags, 0)
    ELSE IF e.kind = 7 THEN YieldFromTag(e.tags, LastELoop(e.tags, Len(e.tags) - 1))
    ELSE IF e.kind = 1111 THEN YieldFromTag(e.tags, FindE(e.tags, 0))
    ELSE <<>>

(***************************************************************************)
(* nip45.js: getFilterPubkeyOffset                                         *)
(*                                                                         *)
(* A Filter is a record of its named fields, each possibly undefined, and  *)
(* props, its other own properties in insertion order: [key, value].       *)
(***************************************************************************)
\* k.startsWith('#')
StartsWithHash(k) == Len(k) >= 1 /\ k[1] = "#"

\* Object.keys(filter).filter(k => k.startsWith('#')): none of the named
\* fields starts with '#', so these are keys of props
TagKeys(f) ==
    SelectSeq([i \in 1 .. Len(f.props) |-> f.props[i].key], StartsWithHash)

\* filter[tagKey]
Lookup(f, k) ==
    LET i == CHOOSE i \in 1 .. Len(f.props) : f.props[i].key = k
    IN  f.props[i].value

\* the nibble read one character early, at index 31
NibbleOffsetAt31(v) ==
    LET p == parseInt16(At(v, 31)[1])
    IN  IF p = NaN THEN -1 ELSE p + 8

\* the three branches that end in "return p + 8"
NibbleOffset(v) ==
    LET p == parseInt16(At(v, 32)[1])
    IN  IF p = NaN THEN -1 ELSE p + 8

getFilterPubkeyOffset(f) ==
    IF Present(f.ids) /\ Len(f.ids[1]) > 0 THEN -1
    ELSE IF Present(f.authors) /\ Len(f.authors[1]) > 0 THEN -1
    ELSE IF Present(f.since) /\ f.since[1] # 0 THEN -1
    ELSE IF Present(f.until) /\ f.until[1] # 0 THEN -1
    ELSE IF Present(f.search) /\ f.search[1] # <<>> THEN -1
    ELSE IF ~Present(f.kinds) \/ Len(f.kinds[1]) # 1 THEN -1
    ELSE LET tagKeys == TagKeys(f) IN
         IF Len(tagKeys) # 1 THEN -1
         ELSE LET tagKey == tagKeys[1]
                  tagValues == Lookup(f, tagKey)
              IN  IF ~Present(tagValues) \/ Len(tagValues[1]) # 1
                     \/ ~isValid32ByteHex(At(tagValues[1], 0))
                  THEN -1
                  ELSE LET kind == f.kinds[1][1] IN
                       IF tagKey = <<"#", "p">> THEN
                           (IF kind = 3 THEN NibbleOffset(tagValues[1][1]) ELSE -1)
                       ELSE IF tagKey = <<"#", "e">> THEN
                           (IF kind = 7 THEN NibbleOffset(tagValues[1][1]) ELSE -1)
                       ELSE IF tagKey = <<"#", "E">> THEN
                           (IF kind = 1111 THEN NibbleOffset(tagValues[1][1]) ELSE -1)
                       ELSE -1

(***************************************************************************)
(* hyperloglog.js: Uint8Array                                              *)
(***************************************************************************)
NumRegisters == 256

\* new Uint8Array(n): n zero bytes
Uint8Array(n) == [i \in 0 .. n - 1 |-> 0]

\* a.length
Length(a) == Cardinality(DOMAIN a)

\* a[i] = v on a typed array: a store past the end is ignored, the value is
\* kept modulo 256
Store(a, i, v) == IF i \in DOMAIN a THEN [a EXCEPT ![i] = v % 256] ELSE a

\* a.fill(0)
FillZero(a) == [i \in DOMAIN a |-> 0]

\* target.set(source), for a source no longer than the target
TypedArraySet(target, source) ==
    [i \in DOMAIN target |-> IF i \in DOMAIN source THEN source[i] ELSE target[i]]

\* pubkey.subarray(begin, end): both ends are clamped to the length
Subarray(a, begin, end) ==
    LET n == Length(a)
        lo == IF begin > n THEN n ELSE begin
        hi == IF end > n THEN n ELSE end
    IN  [k \in 0 .. hi - lo - 1 |-> a[lo + k]]

(***************************************************************************)
(* hyperloglog.js: the HyperLogLog class                                   *)
(***************************************************************************)
\* the constructor's guard without its "- 8"
InvalidOffsetPast32(offset) == offset < 0 \/ offset > 32

\* the constructor's guard
InvalidOffset(offset) == offset < 0 \/ offset > 32 - 8

\* one register short
NewRegistersShort == Uint8Array(NumRegisters - 1)

\* the registers a constructor allocates
NewRegisters == Uint8Array(NumRegisters)

\* newWithRegisters' guard
InvalidRegisterCount(registers) == Length(registers) # NumRegisters

\* the reference getRegisters() returns
getRegisters(h) == hlls[h].registers

\* the contents of the array h.registers refers to
Regs(h) == heap[hlls[h].registers]

\* bit p (0: least significant) of the BigInt getBigUint64(0, false) reads
\* from the eight bytes x, most significant byte first
Bit(x, p) == (x[7 - (p \div 8)] \div (2 ^ (p % 8))) % 2

\* clz56's loop, with the mask m = 1n << p (p = -1: m is 0n)
RECURSIVE clz56Loop(_, _, _)
clz56Loop(x, c, p) ==
    IF p >= 0 /\ Bit(x, p) = 0 THEN clz56Loop(x, c + 1, p - 1) ELSE c

\* clz56 starting its mask at bit 63: the bucket byte is counted too
clz56FromTopBit(x) == clz56Loop(x, 0, 63)

clz56(x) == clz56Loop(x, 0, 55)

\* the merge loop without its comparison: the other's registers overwrite
MergeLoopOverwrite(registers, other) ==
    [i \in DOMAIN registers |-> IF i \in DOMAIN other THEN other[i] ELSE registers[i]]

\* the loop of merge and mergeRegisters, on the receiver's registers: a
\* comparison with a register that does not exist is false
MergeLoop(registers, other) ==
    [i \in DOMAIN registers |->
        IF i \in DOMAIN other /\ other[i] > registers[i] THEN other[i] ELSE registers[i]]

\* add's last statement without its comparison: the rank is always stored
AddWindowAlwaysStores(registers, x) == Store(registers, x[0], clz56(x) + 1)

\* the registers after add's last statement, for the window x of 8 bytes
AddWindow(registers, x) ==
    LET j == x[0]
        zeroBits == clz56(x) + 1
    IN  IF j \in DOMAIN registers /\ zeroBits > registers[j]
        THEN Store(registers, j, zeroBits)
        ELSE registers

(***************************************************************************)
(* The calls on the estimator.  heap and hlls grow by appending, so an     *)
(* identity is an index.  Every array of the heap is one the caller        *)
(* created, or one it can hold a reference to through getRegisters().      *)
(***************************************************************************)
MaxHlls == 2

MaxBufs == 3

\* new HyperLogLog(offset)
New(offset) ==
    /\ IF InvalidOffset(offset)
       THEN /\ err' = "invalid offset"
            /\ UNCHANGED <<heap, hlls>>
       ELSE /\ Len(hlls) < MaxHlls /\ Len(heap) < MaxBufs
            /\ heap' = Append(heap, NewRegisters)
            /\ hlls' = Append(hlls, [offset |-> offset, registers |-> Len(heap) + 1])
            /\ err' = "ok"
    /\ UNCHANGED nipVars

\* newWithRegisters keeping the caller's array instead of copying it
NewWithRegistersKeepsReference(b, offset) ==
    /\ b \in DOMAIN heap
    /\ IF InvalidOffset(offset)
       THEN /\ err' = "invalid offset"
            /\ UNCHANGED <<heap, hlls>>
       ELSE IF InvalidRegisterCount(heap[b])
       THEN /\ err' = "invalid number of registers"
            /\ UNCHANGED <<heap, hlls>>
       ELSE /\ Len(hlls) < MaxHlls
            /\ hlls' = Append(hlls, [offset |-> offset, registers |-> b])
            /\ err' = "ok"
            /\ UNCHANGED heap
    /\ UNCHANGED nipVars

\* HyperLogLog.newWithRegisters(heap[b], offset): the constructor runs
\* first, then the length check, then registers.set copies
NewWithRegisters(b, offset) ==
    /\ b \in DOMAIN heap
    /\ IF InvalidOffset(offset)
       THEN /\ err' = "invalid offset"
            /\ UNCHANGED <<heap, hlls>>
       ELSE IF InvalidRegisterCount(heap[b])
       THEN /\ err' = "invalid number of registers"
            /\ UNCHANGED <<heap, hlls>>
       ELSE /\ Len(hlls) < MaxHlls /\ Len(heap) < MaxBufs
            /\ heap' = Append(heap, TypedArraySet(NewRegisters, heap[b]))
            /\ hlls' = Append(hlls, [offset |-> offset, registers |-> Len(heap) + 1])
            /\ err' = "ok"
    /\ UNCHANGED nipVars

\* h.setRegisters(heap[b]): the reference is stored, nothing is copied
SetRegisters(h, b) ==
    /\ h \in DOMAIN hlls /\ b \in DOMAIN heap
    /\ hlls' = [hlls EXCEPT ![h].registers = b]
    /\ err' = "ok"
    /\ UNCHANGED <<heap, nipVars>>

\* h.mergeRegisters(heap[b])
MergeRegisters(h, b) ==
    /\ h \in DOMAIN hlls /\ b \in DOMAIN heap
    /\ heap' = [heap EXCEPT ![hlls[h].registers] = MergeLoop(Regs(h), heap[b])]
    /\ err' = "ok"
    /\ UNCHANGED <<hlls, nipVars>>

\* h.merge(g)
Merge(h, g) ==
    /\ h \in DOMAIN hlls /\ g \in DOMAIN hlls
    /\ heap' = [heap EXCEPT ![hlls[h].registers] = MergeLoop(Regs(h), Regs(g))]
    /\ err' = "ok"
    /\ UNCHANGED <<hlls, nipVars>>

\* h.clear()
Clear(h) ==
    /\ h \in DOMAIN hlls
    /\ heap' = [heap EXCEPT ![hlls[h].registers] = FillZero(Regs(h))]
    /\ err' = "ok"
    /\ UNCHANGED <<hlls, nipVars>>

\* h.add(pubkey), and addBytes, which only calls it.  DataView's
\* getBigUint64(0) throws a RangeError when the view is shorter than 8 bytes
Add(h, pubkey) ==
    /\ h \in DOMAIN hlls
    /\ LET x == Subarray(pubkey, hlls[h].offset, hlls[h].offset + 8) IN
       IF Length(x) < 8
       THEN /\ err' = "RangeError"
            /\ UNCHANGED heap
       ELSE /\ heap' = [heap EXCEPT ![hlls[h].registers] = AddWindow(Regs(h), x)]
            /\ err' = "ok"
    /\ UNCHANGED <<hlls, nipVars>>

\* the caller's own code: new Uint8Array(n)
NewBuffer(n) ==
    /\ Len(heap) < MaxBufs
    /\ heap' = Append(heap, Uint8Array(n))
    /\ UNCHANGED <<hlls, err, nipVars>>

\* the caller's own code: buf[i] = v on an array it holds
CallerWrite(b, i, v) ==
    /\ b \in DOMAIN heap
    /\ heap' = [heap EXCEPT ![b] = Store(heap[b], i, v)]
    /\ UNCHANGED <<hlls, err, nipVars>>

(***************************************************************************)
(* Spec: a caller driving the estimator API                                *)
(***************************************************************************)
\* new Uint8Array(n).fill(b)
KeyFill(n, b) == [i \in 0 .. n - 1 |-> b]

OffsetArgs == {24, 25}

LengthArgs == {100, 256}

KeyArgs == {KeyFill(32, 1), KeyFill(16, 1)}

IndexArgs == {1}

ValueArgs == {200}

NoFilter ==
    [ids |-> Undefined, authors |-> Undefined, since |-> Undefined,
     until |-> Undefined, search |-> Undefined, kinds |-> Undefined,
     limit |-> Undefined, props |-> <<>>]

NoEvent == [kind |-> 0, tags |-> <<>>]

Init ==
    /\ heap = <<>>
    /\ hlls = <<>>
    /\ err = "none"
    /\ filter = NoFilter
    /\ fres = Undefined
    /\ evt = NoEvent
    /\ eres = Undefined

Next ==
    \/ \E o \in OffsetArgs : New(o)
    \/ \E b \in DOMAIN heap, o \in OffsetArgs : NewWithRegisters(b, o)
    \/ \E h \in DOMAIN hlls, b \in DOMAIN heap : SetRegisters(h, b)
    \/ \E h \in DOMAIN hlls, b \in DOMAIN heap : MergeRegisters(h, b)
    \/ \E h \in DOMAIN hlls, g \in DOMAIN hlls : Merge(h, g)
    \/ \E h \in DOMAIN hlls : Clear(h)
    \/ \E h \in DOMAIN hlls, k \in KeyArgs : Add(h, k)
    \/ \E n \in LengthArgs : NewBuffer(n)
    \/ \E b \in DOMAIN heap, i \in IndexArgs, v \in ValueArgs : CallerWrite(b, i, v)

Spec == Init /\ [][Next]_vars

(***************************************************************************)
(* SpecNew: the two ways of constructing an estimator                      *)
(***************************************************************************)
NewOffsetArgs == {-1, 0, 24, 25}

NewLengthArgs == {255, 256, 257}

NextNew ==
    \/ \E o \in NewOffsetArgs : New(o)
    \/ \E b \in DOMAIN heap, o \in NewOffsetArgs : NewWithRegisters(b, o)
    \/ \E n \in NewLengthArgs : NewBuffer(n)
    \/ \E b \in DOMAIN heap, i \in IndexArgs, v \in ValueArgs : CallerWrite(b, i, v)

SpecNew == Init /\ [][NextNew]_vars

(***************************************************************************)
(* SpecCopy: estimators built by newWithRegisters only, and never given    *)
(* another array by setRegisters                                           *)
(***************************************************************************)
NextCopy ==
    \/ \E b \in DOMAIN heap, o \in OffsetArgs : NewWithRegisters(b, o)
    \/ \E h \in DOMAIN hlls, b \in DOMAIN heap : MergeRegisters(h, b)
    \/ \E h \in DOMAIN hlls, g \in DOMAIN hlls : Merge(h, g)
    \/ \E h \in DOMAIN hlls : Clear(h)
    \/ \E h \in DOMAIN hlls, k \in KeyArgs : Add(h, k)
    \/ \E n \in LengthArgs : NewBuffer(n)
    \/ \E b \in DOMAIN heap, i \in IndexArgs, v \in ValueArgs : CallerWrite(b, i, v)

SpecCopy == Init /\ [][NextCopy]_vars

(***************************************************************************)
(* SpecAdd: add on one estimator, for every offset and a range of keys     *)
(***************************************************************************)
\* the 32-byte key whose only set bit is bit p, counted from the most
\* significant bit of byte 0
KeyOneBit(p) == [i \in 0 .. 31 |-> IF i = p \div 8 THEN 2 ^ (7 - (p % 8)) ELSE 0]

\* the 32-byte key 1, 2, ..., 32
KeyRamp == [i \in 0 .. 31 |-> i + 1]

AddKeyArgs ==
    {KeyFill(32, 0), KeyFill(32, 1), KeyFill(32, 255), KeyRamp,
     KeyOneBit(8), KeyOneBit(100), KeyOneBit(255)}

\* register sets an estimator can hold (through newWithRegisters)
AddRegisterArgs == {NewRegisters, [i \in 0 .. NumRegisters - 1 |-> 5]}

InitAdd ==
    /\ \E r \in AddRegisterArgs : heap = <<r>>
    /\ \E o \in 0 .. 24 : hlls = <<[offset |-> o, registers |-> 1]>>
    /\ err = "none"
    /\ filter = NoFilter
    /\ fres = Undefined
    /\ evt = NoEvent
    /\ eres = Undefined

NextAdd == \E k \in AddKeyArgs : Add(1, k)

SpecAdd == InitAdd /\ [][NextAdd]_vars

(***************************************************************************)
(* SpecMerge: merge and mergeRegisters on two estimators and a raw buffer  *)
(***************************************************************************)
MergeRegisterArgs ==
    {NewRegisters,
     [i \in 0 .. NumRegisters - 1 |-> i % 5],
     [i \in 0 .. NumRegisters - 1 |-> (7 * i) % 11],
     [i \in 0 .. NumRegisters - 1 |-> IF i < 128 THEN 57 ELSE 0]}

InitMerge ==
    /\ \E a \in MergeRegisterArgs, b \in MergeRegisterArgs, c \in MergeRegisterArgs :
          heap = <<a, b, c>>
    /\ hlls = <<[offset |-> 0, registers |-> 1], [offset |-> 24, registers |-> 2]>>
    /\ err = "none"
    /\ filter = NoFilter
    /\ fres = Undefined
    /\ evt = NoEvent
    /\ eres = Undefined

NextMerge ==
    \/ \E h \in DOMAIN hlls, g \in DOMAIN hlls : Merge(h, g)
    \/ \E h \in DOMAIN hlls, b \in DOMAIN heap : MergeRegisters(h, b)

SpecMerge == InitMerge /\ [][NextMerge]_vars

(***************************************************************************)
(* SpecFilter and SpecEvent: the two helpers of nip45.js, each applied     *)
(* once to an input drawn from a bounded set                               *)
(***************************************************************************)
\* a string of n characters c, with the character at JS index 32 set to d
HexWith(c, n, d) == [i \in 1 .. n |-> IF i = 33 THEN d ELSE c]

HexA == Repeat("a", 64)

HexD == Repeat("d", 64)

StringArgs ==
    {HexA, HexWith("0", 64, "F"), Repeat("b", 63), Repeat("c", 65),
     HexWith("a", 64, "g"), HexWith("g", 64, "a"), <<>>}

\* what a tag selector of a filter may hold
ValueArgs45 ==
    {Undefined, Some(<<>>), Some(<<HexA, HexD>>)} \cup {Some(<<v>>) : v \in StringArgs}

KeyArgs45 ==
    {<<"#", "p">>, <<"#", "e">>, <<"#", "E">>, <<"#", "t">>, <<"#">>,
     <<"p">>, <<"#", "p", "p">>}

KindsArgs ==
    {Undefined, Some(<<>>), Some(<<3>>), Some(<<7>>), Some(<<1111>>),
     Some(<<1>>), Some(<<3, 7>>)}

\* at most two other properties, with distinct keys
PropsArgs ==
    {<<>>}
    \cup {<<[key |-> k, value |-> v]>> : k \in KeyArgs45, v \in ValueArgs45}
    \cup UNION {{<<[key |-> k1, value |-> v1], [key |-> k2, value |-> v2]>> :
                    k2 \in {<<"#", "p">>, <<"#", "e">>, <<"p">>} \ {k1},
                    v1 \in {Undefined, Some(<<HexA>>)}, v2 \in {Undefined, Some(<<HexD>>)}} :
                 k1 \in {<<"#", "p">>, <<"#", "e">>, <<"p">>}}

\* every shape of the tag selectors and the kinds, the other fields absent
ShapeFilters ==
    {[NoFilter EXCEPT !.kinds = ks, !.limit = l, !.props = ps] :
        ks \in KindsArgs, l \in {Undefined, Some(10)}, ps \in PropsArgs}

\* every combination of the disqualifying fields on an eligible filter
FieldFilters ==
    {[ids |-> i, authors |-> a, since |-> s, until |-> u, search |-> q,
      kinds |-> Some(<<k>>), limit |-> l,
      props |-> <<[key |-> <<"#", "p">>, value |-> Some(<<HexD>>)]>>] :
        i \in {Undefined, Some(<<>>), Some(<<HexA>>)},
        a \in {Undefined, Some(<<>>), Some(<<<<"a", "b", "c">>>>)},
        s \in {Undefined, Some(0), Some(5)},
        u \in {Undefined, Some(0), Some(5)},
        q \in {Undefined, Some(<<>>), Some(<<"x">>)},
        k \in {3, 7},
        l \in {Undefined, Some(10)}}

\* every hex digit at index 32, under every supported and unsupported pair
NibbleFilters ==
    {[NoFilter EXCEPT !.kinds = Some(<<k>>),
                      !.props = <<[key |-> t, value |-> Some(<<HexWith("5", 64, d)>>)]>>] :
        k \in {3, 7, 1111}, t \in {<<"#", "p">>, <<"#", "e">>, <<"#", "E">>},
        d \in HexChars}

FilterArgs == ShapeFilters \cup FieldFilters \cup NibbleFilters

InitFilter ==
    /\ heap = <<>>
    /\ hlls = <<>>
    /\ err = "none"
    /\ filter \in FilterArgs
    /\ fres = Undefined
    /\ evt = NoEvent
    /\ eres = Undefined

\* the caller: offset = getFilterPubkeyOffset(filter)
CallGetFilterPubkeyOffset ==
    /\ fres = Undefined
    /\ fres' = Some(getFilterPubkeyOffset(filter))
    /\ UNCHANGED <<hllVars, filter, evt, eres>>

NextFilter == CallGetFilterPubkeyOffset

SpecFilter == InitFilter /\ [][NextFilter]_vars

MaxTags == 3

TagArgs ==
    {<<>>, <<<<"p">>>>, <<<<"e">>, <<>>>>,
     <<<<"p">>, HexA>>, <<<<"p">>, HexD, <<"x">>>>, <<<<"p">>, Repeat("b", 63)>>,
     <<<<"e">>, HexA>>, <<<<"e">>, HexWith("1", 64, "B")>>, <<<<"e">>, HexWith("g", 64, "a")>>,
     <<<<"E">>, HexA>>, <<<<"E">>, HexWith("c", 64, "7")>>, <<<<"E">>, <<"o">>>>}

RECURSIVE SeqsUpTo(_, _)
SeqsUpTo(S, n) ==
    IF n = 0 THEN {<<>>}
    ELSE LET shorter == SeqsUpTo(S, n - 1)
         IN  shorter \cup {Append(q, x) : q \in shorter, x \in S}

EventArgs ==
    {[kind |-> k, tags |-> ts] : k \in {3, 7, 1111, 1}, ts \in SeqsUpTo(TagArgs, MaxTags)}
    \cup {[kind |-> k, tags |-> <<<<t, HexWith("5", 64, d)>>>>] :
            k \in {3, 7, 1111}, t \in {<<"p">>, <<"e">>, <<"E">>}, d \in HexChars}

InitEvent ==
    /\ heap = <<>>
    /\ hlls = <<>>
    /\ err = "none"
    /\ filter = NoFilter
    /\ fres = Undefined
    /\ evt \in EventArgs
    /\ eres = Undefined

\* the caller: [...getEventPubkeyOffsetsAndReferences(evt)]
CallGetEventPubkeyOffsetsAndReferences ==
    /\ eres = Undefined
    /\ eres' = Some(getEventPubkeyOffsetsAndReferences(evt))
    /\ UNCHANGED <<hllVars, filter, fres, evt>>

NextEvent == CallGetEventPubkeyOffsetsAndReferences

SpecEvent == InitEvent /\ [][NextEvent]_vars

(***************************************************************************)
(* SpecAgree: ingestion and query.  An event is indexed with               *)
(* getEventPubkeyOffsetsAndReferences; a relay then receives the COUNT     *)
(* filter for one of the references, derives its offset and constructs the *)
(* estimator with it.                                                      *)
(***************************************************************************)
\* the tag selector that counts events of this kind
TagKeyOf(kind) ==
    IF kind = 3 THEN <<"#", "p">>
    ELSE IF kind = 7 THEN <<"#", "e">>
    ELSE <<"#", "E">>

\* { kinds: [kind], '#p': [reference] }, and likewise for '#e' and '#E'
FilterFor(kind, reference) ==
    [NoFilter EXCEPT !.kinds = Some(<<kind>>),
                     !.props = <<[key |-> TagKeyOf(kind), value |-> Some(<<reference>>)]>>]

AgreeTagArgs ==
    {<<<<"p">>, HexA>>, <<<<"p">>, HexD>>, <<<<"p">>, Repeat("b", 63)>>,
     <<<<"e">>, HexWith("1", 64, "B")>>, <<<<"e">>, HexWith("g", 64, "a")>>,
     <<<<"E">>, HexWith("c", 64, "7")>>}

AgreeEventArgs ==
    {[kind |-> k, tags |-> ts] : k \in {3, 7, 1111}, ts \in SeqsUpTo(AgreeTagArgs, MaxTags)}
    \cup {[kind |-> k, tags |-> <<<<t, HexWith("5", 64, d)>>>>] :
            k \in {3, 7, 1111}, t \in {<<"p">>, <<"e">>, <<"E">>}, d \in HexChars}

InitAgree ==
    /\ heap = <<>>
    /\ hlls = <<>>
    /\ err = "none"
    /\ filter = NoFilter
    /\ fres = Undefined
    /\ evt \in AgreeEventArgs
    /\ eres = Undefined

\* the relay receives the COUNT filter for the i-th yielded reference:
\* offset = getFilterPubkeyOffset(filter)
ReceiveCountFilter(i) ==
    /\ Present(eres) /\ i \in DOMAIN eres[1]
    /\ filter' = FilterFor(evt.kind, eres[1][i].reference)
    /\ fres' = Some(getFilterPubkeyOffset(filter'))
    /\ UNCHANGED <<hllVars, evt, eres>>

\* if (offset !== -1) { const hll = new HyperLogLog(offset) ... }
NewAtFilterOffset ==
    /\ Present(fres) /\ fres[1] # -1
    /\ New(fres[1])

NextAgree ==
    \/ CallGetEventPubkeyOffsetsAndReferences
    \/ \E i \in 1 .. MaxTags : ReceiveCountFilter(i)
    \/ NewAtFilterOffset

SpecAgree == InitAgree /\ [][NextAgree]_vars

(***************************************************************************)
(* Properties                                                              *)
(***************************************************************************)
Max(a, b) == IF a >= b THEN a ELSE b

Min(S) == CHOOSE x \in S : \A y \in S : x <= y

Greatest(S) == CHOOSE x \in S : \A y \in S : y <= x

\* the number of leading zero bits of the byte b, written as 8 bits
LeadingZeros8(b) ==
    CHOOSE z \in 0 .. 8 : \/ b = 0 /\ z = 8
                          \/ b > 0 /\ 2 ^ (7 - z) <= b /\ b < 2 ^ (8 - z)

\* 1 + the number of leading zero bits among the low 56 bits of the
\* big-endian value of key[o .. o+8): the 7 bytes after the bucket byte
RankOf(key, o) ==
    LET nonzero == {t \in 1 .. 7 : key[o + t] # 0} IN
    IF nonzero = {} THEN 57
    ELSE LET t == Min(nonzero) IN 1 + 8 * (t - 1) + LeadingZeros8(key[o + t])

\* C3: add(key) on an estimator with offset o in 0..24 and a 32-byte key sets
\* registers[key[o]] to the maximum of its old value and the rank of the
\* window, and leaves every other register and the offset as they were.
C3_AddSetsMaxRank ==
    [][\A h \in DOMAIN hlls, k \in AddKeyArgs :
          Add(h, k) =>
            LET o == hlls[h].offset
                j == k[o]
            IN  /\ o \in 0 .. 24 /\ Length(k) = 32
                /\ err' = "ok"
                /\ heap'[hlls[h].registers] =
                      [i \in 0 .. NumRegisters - 1 |->
                          IF i = j THEN Max(Regs(h)[i], RankOf(k, o)) ELSE Regs(h)[i]]
                /\ hlls' = hlls]_vars

\* offset 24: the all-zero key left rank 57 in register 0, the all-ones key
\* rank 1 in register 255 and the ramp key rank 4 in register 25
C3_Witness ==
    /\ hlls[1].offset = 24
    /\ err = "ok"
    /\ Regs(1)[0] = 57 /\ Regs(1)[255] = 1 /\ Regs(1)[25] = 4

PointwiseMax(a, b) == [i \in 0 .. NumRegisters - 1 |-> Max(a[i], b[i])]

\* the register sets alive
RegisterSets == {heap[b] : b \in DOMAIN heap}

\* C4: merge and mergeRegisters set each register to the maximum of the two
\* register sets' values, leave the receiver's offset and the other
\* register set as they were, and the operation on 256-register sets is
\* commutative, associative and idempotent.
C4_MergeIsPointwiseMax ==
    /\ [](\A a \in RegisterSets, b \in RegisterSets, c \in RegisterSets :
              /\ Length(a) = NumRegisters
              /\ MergeLoop(a, b) = MergeLoop(b, a)
              /\ MergeLoop(MergeLoop(a, b), c) = MergeLoop(a, MergeLoop(b, c))
              /\ MergeLoop(a, a) = a)
    /\ [][/\ \A h \in DOMAIN hlls, g \in DOMAIN hlls :
               Merge(h, g) =>
                 /\ heap'[hlls[h].registers] = PointwiseMax(Regs(h), Regs(g))
                 /\ heap'[hlls[g].registers] = Regs(g)
                 /\ hlls' = hlls
          /\ \A h \in DOMAIN hlls, b \in DOMAIN heap :
               MergeRegisters(h, b) =>
                 /\ heap'[hlls[h].registers] = PointwiseMax(Regs(h), heap[b])
                 /\ heap'[b] = heap[b]
                 /\ hlls' = hlls]_vars

\* estimator 1 holds the merge of i % 5 and 7i % 11: register 8 from the
\* first (3 > 1), register 1 from the second (7 > 1)
C4_Witness ==
    /\ err = "ok"
    /\ Regs(1)[8] = 3 /\ Regs(1)[1] = 7 /\ Regs(1)[3] = 10 /\ Regs(1)[4] = 6
    /\ hlls[1].offset = 0

\* a 64-character string of hex digits
IsHexKey(str) == Len(str) = 64 /\ {str[i] : i \in 1 .. Len(str)} \subseteq HexChars

Digits ==
    <<"0", "1", "2", "3", "4", "5", "6", "7", "8", "9", "a", "b", "c", "d", "e", "f">>

UpperDigits ==
    <<"0", "1", "2", "3", "4", "5", "6", "7", "8", "9", "A", "B", "C", "D", "E", "F">>

\* the value of the hex digit c, in either case
DigitValue(c) == (CHOOSE k \in 1 .. 16 : Digits[k] = c \/ UpperDigits[k] = c) - 1

\* the offset a reference names: its hex digit at index 32, plus 8
OffsetOf(ref) == DigitValue(ref[33]) + 8

\* the positions of f.props whose key starts with '#'
HashProps(f) ==
    {i \in 1 .. Len(f.props) : f.props[i].key # <<>> /\ Head(f.props[i].key) = "#"}

\* the filter is one approximate counting serves
Eligible(f) ==
    /\ f.ids \in {Undefined, Some(<<>>)}
    /\ f.authors \in {Undefined, Some(<<>>)}
    /\ f.since \in {Undefined, Some(0)}
    /\ f.until \in {Undefined, Some(0)}
    /\ f.search \in {Undefined, Some(<<>>)}
    /\ f.kinds # Undefined /\ Len(f.kinds[1]) = 1
    /\ Cardinality(HashProps(f)) = 1
    /\ \E i \in HashProps(f) :
          /\ f.props[i].value # Undefined
          /\ Len(f.props[i].value[1]) = 1
          /\ IsHexKey(f.props[i].value[1][1])
          /\ <<f.props[i].key, f.kinds[1][1]>> \in
                {<< <<"#", "p">>, 3 >>, << <<"#", "e">>, 7 >>, << <<"#", "E">>, 1111 >>}

\* the one tag value of an eligible filter
TagValue(f) == f.props[CHOOSE i \in HashProps(f) : TRUE].value[1][1]

\* C8: getFilterPubkeyOffset returns the hex digit at index 32 of the tag
\* value plus 8, a value in 8..23, exactly for the eligible filters (no ids,
\* authors, since, until, search; one kind; one '#' key holding one valid
\* hex value; a supported (key, kind) pair) and -1 for every other filter;
\* a limit never changes the result.
C8_FilterOffset ==
    Present(fres) =>
        /\ fres[1] = IF Eligible(filter) THEN OffsetOf(TagValue(filter)) ELSE -1
        /\ Eligible(filter) <=> fres[1] \in 8 .. 23
        /\ fres[1] \in 8 .. 23 \/ fres[1] = -1
        /\ \A l \in {Undefined, Some(0), Some(10)} :
              getFilterPubkeyOffset([filter EXCEPT !.limit = l]) = fres[1]

\* {kinds: [1111], '#E': ['5'.repeat(32) + 'F' + ...], limit absent} gave 23
C8_Witness ==
    /\ fres = Some(23)
    /\ filter.kinds = Some(<<1111>>)
    /\ filter.props = <<[key |-> <<"#", "E">>, value |-> Some(<<HexWith("5", 64, "F")>>)]>>

\* the tags of ts, as positions, whose first element is the string name
Named(ts, name) == {i \in 1 .. Len(ts) : ts[i] # <<>> /\ ts[i][1] = name}

\* the tag at position i holds a valid hex key as its second element
HasHexKey(ts, i) == Len(ts[i]) >= 2 /\ IsHexKey(ts[i][2])

\* the pair a reference stands for
PairOf(ref) == [reference |-> ref, offset |-> OffsetOf(ref)]

\* the pair of the tag at position i, if it holds a valid hex key
PairsOfTag(ts, i) == IF HasHexKey(ts, i) THEN <<PairOf(ts[i][2])>> ELSE <<>>

\* C9: getEventPubkeyOffsetsAndReferences yields, for kind 3, one pair per
\* "p" tag with a valid hex key, in tag order; for kind 7, the pair of the
\* last "e" tag if its value is valid hex and nothing otherwise; for kind
\* 1111, the same of the first "E" tag; nothing for any other kind; each
\* offset is the hex digit at index 32 of the reference plus 8.
C9_EventContributions ==
    Present(eres) =>
        LET ts == evt.tags
            out == eres[1]
        IN  CASE evt.kind = 3 ->
                   LET good == {i \in Named(ts, <<"p">>) : HasHexKey(ts, i)} IN
                   /\ Len(out) = Cardinality(good)
                   /\ \A i \in good :
                         out[Cardinality({m \in good : m <= i})] = PairOf(ts[i][2])
              [] evt.kind = 7 ->
                   out = IF Named(ts, <<"e">>) = {} THEN <<>>
                         ELSE PairsOfTag(ts, Greatest(Named(ts, <<"e">>)))
              [] evt.kind = 1111 ->
                   out = IF Named(ts, <<"E">>) = {} THEN <<>>
                         ELSE PairsOfTag(ts, Min(Named(ts, <<"E">>)))
              [] OTHER -> out = <<>>

\* a kind 7 event with two valid "e" tags and a "p" tag after them yielded
\* the second "e" tag alone, with offset 0xB + 8
C9_Witness ==
    /\ evt.kind = 7
    /\ evt.tags = << <<<<"e">>, HexA>>, <<<<"e">>, HexWith("1", 64, "B")>>, <<<<"p">>, HexA>> >>
    /\ eres = Some(<<[reference |-> HexWith("1", 64, "B"), offset |-> 19]>>)

\* every estimator's register set has 256 registers
AllLengths256 == \A h \in DOMAIN hlls : Length(Regs(h)) = NumRegisters

\* the step is a call of setRegisters with an array of another length
SetRegistersOtherLength ==
    \E h \in DOMAIN hlls, b \in DOMAIN heap :
        Length(heap[b]) # NumRegisters /\ SetRegisters(h, b)

\* C1, as claimed: in every state reachable by any sequence of calls,
\* setRegisters among them, every register set has length exactly 256.
C1_LengthAlways256 == AllLengths256

\* C1, amended: every step that is not a call of setRegisters with an array
\* whose length is not 256 keeps every register set at length 256, so the
\* length is 256 as long as no such call was made.
C1_LengthKeptBy256Callers ==
    [][AllLengths256' \/ ~AllLengths256 \/ SetRegistersOtherLength]_vars

\* two estimators share one 256-register array, handed over by
\* setRegisters, and an add has reached it
C1_Witness ==
    /\ Len(hlls) = 2
    /\ hlls[1].registers = hlls[2].registers
    /\ Length(Regs(1)) = NumRegisters
    /\ Regs(1)[1] = 8
    /\ err = "ok"

\* the step is a call on the estimator API that is neither clear nor
\* setRegisters
CallKeepingRegisters ==
    \/ \E o \in OffsetArgs : New(o)
    \/ \E b \in DOMAIN heap, o \in OffsetArgs : NewWithRegisters(b, o)
    \/ \E h \in DOMAIN hlls, b \in DOMAIN heap : MergeRegisters(h, b)
    \/ \E h \in DOMAIN hlls, g \in DOMAIN hlls : Merge(h, g)
    \/ \E h \in DOMAIN hlls, k \in KeyArgs : Add(h, k)

CallSetRegisters == \E h \in DOMAIN hlls, b \in DOMAIN heap : SetRegisters(h, b)

\* no register of an estimator that exists before the step holds less
\* after it
NoRegisterDecreases ==
    \A h \in DOMAIN hlls :
        LET before == Regs(h)
            after == heap'[hlls'[h].registers]
        IN  \/ after = before
            \/ \A i \in DOMAIN before \cap DOMAIN after : after[i] >= before[i]

\* C2, as claimed: no register decreases in any step of the estimator's
\* operations except clear().
C2_OnlyClearDecreases ==
    [][NoRegisterDecreases \/ ~(CallKeepingRegisters \/ CallSetRegisters)]_vars

\* C2, amended: no register decreases in any step of the estimator's
\* operations except clear() and setRegisters().
C2_OnlyClearOrSetRegistersDecreases ==
    [][NoRegisterDecreases \/ ~CallKeepingRegisters]_vars

\* two estimators with arrays of their own: register 1 of the first holds
\* 200, which only the caller's own code writes, and register 1 of the
\* second the rank 8 of an add
C2_Witness ==
    /\ err = "ok"
    /\ Len(hlls) = 2
    /\ hlls[1].registers # hlls[2].registers
    /\ Regs(1)[1] = 200 /\ Regs(2)[1] = 8

\* the estimator a successful construction appends has this offset and
\* these registers, in an array of its own
Constructed(offset, registers) ==
    /\ err' = "ok"
    /\ Len(hlls') = Len(hlls) + 1
    /\ \A h \in DOMAIN hlls : hlls'[h] = hlls[h]
    /\ hlls'[Len(hlls')].offset = offset
    /\ heap'[hlls'[Len(hlls')].registers] = registers

\* the construction threw e and produced no estimator
Refused(e) == err' = e /\ hlls' = hlls /\ heap' = heap

\* C5, as claimed: create fails with the invalid-offset error exactly when
\* the offset is outside 0..24 and otherwise yields 256 zero registers;
\* createFromRegisters fails with the invalid-register-count error whenever
\* the buffer's length is not 256 and with the invalid-offset error whenever
\* the offset is outside 0..24; a failure produces no estimator.
C5_ConstructionErrors ==
    [][/\ \A o \in NewOffsetArgs :
            New(o) => IF o \in 0 .. 24
                      THEN Constructed(o, [i \in 0 .. 255 |-> 0])
                      ELSE Refused("invalid offset")
       /\ \A b \in DOMAIN heap, o \in NewOffsetArgs :
            NewWithRegisters(b, o) =>
              /\ Length(heap[b]) # 256 => Refused("invalid number of registers")
              /\ o \notin 0 .. 24 => Refused("invalid offset")
              /\ (Length(heap[b]) = 256 /\ o \in 0 .. 24) => Constructed(o, heap[b])]_vars

\* C5, amended: as claimed, except that createFromRegisters fails with the
\* invalid-offset error whenever the offset is outside 0..24, whatever the
\* buffer's length, and with the invalid-register-count error whenever the
\* offset is in 0..24 and the buffer's length is not 256.
C5_ConstructionErrorsOffsetFirst ==
    [][/\ \A o \in NewOffsetArgs :
            New(o) => IF o \in 0 .. 24
                      THEN Constructed(o, [i \in 0 .. 255 |-> 0])
                      ELSE Refused("invalid offset")
       /\ \A b \in DOMAIN heap, o \in NewOffsetArgs :
            NewWithRegisters(b, o) =>
              IF o \notin 0 .. 24 THEN Refused("invalid offset")
              ELSE IF Length(heap[b]) # 256 THEN Refused("invalid number of registers")
              ELSE Constructed(o, heap[b])]_vars

\* an estimator with offset 24 was built from registers the caller had
\* written, and a later construction from a 257-byte array was refused
C5_Witness ==
    /\ err = "invalid number of registers"
    /\ Len(hlls) = 1
    /\ hlls[1].offset = 24
    /\ Regs(1)[1] = 200
    /\ \E b \in DOMAIN heap : Length(heap[b]) = 257

\* C6, as claimed: once an estimator is constructed, no call of add, merge,
\* mergeRegisters, clear or setRegisters fails, for any key and any buffer.
C6_NoCallFailsAfterConstruction ==
    [][((\E h \in DOMAIN hlls, k \in KeyArgs : Add(h, k))
         \/ (\E h \in DOMAIN hlls, g \in DOMAIN hlls : Merge(h, g))
         \/ (\E h \in DOMAIN hlls, b \in DOMAIN heap : MergeRegisters(h, b))
         \/ (\E h \in DOMAIN hlls : Clear(h))
         \/ CallSetRegisters)
        => err' = "ok"]_vars

\* no two estimators hold the same array
OwnArrays ==
    \A h \in DOMAIN hlls, g \in DOMAIN hlls :
        h # g => hlls[h].registers # hlls[g].registers

\* C10: newWithRegisters copies the caller's array: the new estimator's
\* registers are a new array of its own holding the caller's contents as
\* they were at the call, and the caller's array is left as it was;
\* afterwards a write to the caller's array changes no estimator's
\* registers, and an add, merge, mergeRegisters or clear of an estimator
\* changes no array but that estimator's own.
C10_NewWithRegistersCopies ==
    [][/\ \A b \in DOMAIN heap, o \in OffsetArgs :
            (NewWithRegisters(b, o) /\ err' = "ok") =>
              /\ Constructed(o, heap[b])
              /\ hlls'[Len(hlls')].registers \notin DOMAIN heap
              /\ \A c \in DOMAIN heap : heap'[c] = heap[c]
       /\ OwnArrays'
       /\ \A b \in DOMAIN heap, i \in IndexArgs, v \in ValueArgs :
            CallerWrite(b, i, v) =>
              \A h \in DOMAIN hlls :
                  hlls[h].registers # b => heap'[hlls'[h].registers] = Regs(h)
       /\ \A h \in DOMAIN hlls :
            (\/ \E k \in KeyArgs : Add(h, k)
             \/ \E g \in DOMAIN hlls : Merge(h, g)
             \/ \E b \in DOMAIN heap : MergeRegisters(h, b)
             \/ Clear(h))
            => \A c \in DOMAIN heap : c # hlls[h].registers => heap'[c] = heap[c]]_vars

\* the only estimator was built from array 1, which the caller then wrote
\* to: the estimator's register 1 is still 0, and after an add to the
\* estimator the caller's array still holds what the caller wrote
C10_Witness ==
    /\ Len(hlls) = 1 /\ Len(heap) = 2
    /\ hlls[1].registers = 2
    /\ heap[1][1] = 200
    /\ Regs(1)[1] = 8
    /\ err = "ok"

\* C11, as claimed: after any sequence of calls on two estimators a and b,
\* setRegisters and getRegisters among them, an add, merge or clear applied
\* to a changes no register of b.
C11_CallOnOneLeavesOtherUnchanged ==
    [][\A a \in DOMAIN hlls, b \in DOMAIN hlls :
          (/\ a # b
           /\ \/ \E k \in KeyArgs : Add(a, k)
              \/ \E g \in DOMAIN hlls : Merge(a, g)
              \/ Clear(a))
          => heap'[hlls'[b].registers] = Regs(b)]_vars

\* the offsets the indexed event yielded
YieldedOffsets == {eres[1][i].offset : i \in DOMAIN eres[1]}

\* C12: for every pair (reference, offset) an event of kind 3, 7 or 1111
\* yields, getFilterPubkeyOffset of the filter holding only that kind and
\* the matching tag selector with that reference returns the same offset,
\* and new HyperLogLog of that offset does not throw.
C12_IngestionAndQueryAgree ==
    /\ Present(fres) =>
         /\ Present(eres)
         /\ \E i \in DOMAIN eres[1] : filter = FilterFor(evt.kind, eres[1][i].reference)
         /\ \A i \in DOMAIN eres[1] :
              filter = FilterFor(evt.kind, eres[1][i].reference)
                => fres[1] = eres[1][i].offset
    /\ err # "invalid offset"
    /\ \A h \in DOMAIN hlls : Present(eres) /\ hlls[h].offset \in YieldedOffsets

\* a kind 3 event with two followed keys was indexed, the filter for the
\* second was received and an estimator was constructed for each offset
C12_Witness ==
    /\ evt = [kind |-> 3, tags |-> << <<<<"p">>, HexA>>, <<<<"p">>, HexD>> >>]
    /\ filter = FilterFor(3, HexD)
    /\ fres = Some(21)
    /\ Len(hlls) = 2 /\ hlls[1].offset = 18 /\ hlls[2].offset = 21
    /\ err = "ok"

====
